---- MODULE Spec2Model ----
(***************************************************************************)
(* A model of GLTF2Loader (Source/_gltf2usd/gltf2loader.py): the binary    *)
(* container demuxer of __init__, the graph assembly stages of _initialize *)
(* and the accessor decoder get_data with its per-index cache.             *)
(*                                                                         *)
(* Conventions.  An optional JSON key is a set: {} when the key is absent, *)
(* {v} when it is present with value v.  Bytes are numbers 0..255.  A      *)
(* raised Python exception ends the operation with the exception's name.   *)
(* struct.unpack and np.frombuffer use the host's byte order; the model    *)
(* takes the little-endian host the format is defined for.                 *)
(***************************************************************************)
EXTENDS Integers, Sequences, FiniteSets

VARIABLES
    pc,                 \* where the loader is: "header", "chunks", "text",
                        \* "initialize" (construction), "ready", "failed"
    gltf_file,          \* the file the loader is constructed from
    next_chunk,         \* file position of the demuxer, as the index of the next chunk
    total_bytes_read,   \* __init__'s running byte count
    binary,             \* self.binary
    json_data,          \* self.json_data: {} while unset, {document} once parsed
    error,              \* the exception that ended construction, and where
    chunks_read,        \* number of chunk headers the demuxer has read
    json_parsed,        \* number of times json.loads ran
    stages,             \* the _initialize_* stages entered so far, in order
    nodes,              \* self.nodes: per node its _parent and _children
    scenes,             \* self._scenes
    main_scene,         \* self._main_scene: {} for None, {i} for scene i
    accessor_data_map,  \* self._accessor_data_map
    call,               \* the arguments of the latest get_data call
    ret,                \* what the latest get_data call returned or raised
    reads               \* buffer byte positions the latest get_data call decoded

vars == <<pc, gltf_file, next_chunk, total_bytes_read, binary, json_data, error,
          chunks_read, json_parsed, stages, nodes, scenes, main_scene,
          accessor_data_map, call, ret, reads>>

loadVars == <<gltf_file, next_chunk, total_bytes_read, error, chunks_read, json_parsed>>
graphVars == <<stages, nodes, scenes, main_scene>>
dataVars == <<accessor_data_map, call, ret, reads>>

(***************************************************************************)
(* Bounds of the model.                                                    *)
(***************************************************************************)
MaxCount == 2        \* accessor.count ranges over 0..MaxCount
MaxBufLen == 6       \* buffers hold 0..MaxBufLen bytes
MaxStride == 3       \* a declared byteStride ranges over 1..MaxStride

(***************************************************************************)
(* Program constants.                                                      *)
(***************************************************************************)
BYTE == 5120
UNSIGNED_BYTE == 5121
SHORT == 5122
UNSIGNED_SHORT == 5123
UNSIGNED_INT == 5125
FLOAT == 5126
ByteDivisor == 255
ShortDivisor == 65535

AccessorComponentType == {BYTE, UNSIGNED_BYTE, SHORT, UNSIGNED_SHORT, UNSIGNED_INT, FLOAT}

Has(opt) == opt # {}
Get(opt) == CHOOSE v \in opt : TRUE
Min(a, b) == IF a < b THEN a ELSE b

\* s[a:b] of Python for 0 <= a
Slice(s, a, b) == SubSeq(s, a + 1, Min(b, Len(s)))

accessor_type_count(x) ==
    CASE x = "SCALAR" -> 1
      [] x = "VEC2" -> 2
      [] x = "VEC3" -> 3
      [] x = "VEC4" -> 4
      [] x = "MAT2" -> 4
      [] x = "MAT3" -> 9
      [] x = "MAT4" -> 16

accessor_component_type_bytesize(x) ==
    CASE x = BYTE -> 1
      [] x = UNSIGNED_BYTE -> 1
      [] x = SHORT -> 2
      [] x = UNSIGNED_SHORT -> 2
      [] x = UNSIGNED_INT -> 4
      [] x = FLOAT -> 4

(***************************************************************************)
(* get_data: the accessor decoder.                                         *)
(***************************************************************************)
Doc == Get(json_data)

\* An entry of a decoded array: a bare number (scalar) or a tuple of numbers.
\* A number is the unpacked value num (read in format fmt) divided by den.
Number(fmt, num, den) == [fmt |-> fmt, num |-> num, den |-> den]
Entry(comps) == [scalar |-> Len(comps) = 1, comps |-> comps]

RECURSIVE LittleEndian(_)
LittleEndian(window) ==
    IF window = <<>> THEN 0 ELSE Head(window) + 256 * LittleEndian(Tail(window))

\* mutant of unpack: the bytes read in big-endian order
RECURSIVE BigEndian(_, _)
BigEndian(window, acc) ==
    IF window = <<>> THEN acc ELSE BigEndian(Tail(window), 256 * acc + Head(window))
unpack_big_endian(window) == BigEndian(window, 0)

\* struct.unpack(data_type, window)[0]
unpack(window) == LittleEndian(window)

\* lines 320-343: the bytes the decoder works on, and the buffer position of
\* their first byte.  data is {} when buffer['data'] is None.
BufferSource(bufferview, buffer) ==
    LET bo == IF Has(bufferview.byteOffset) THEN Get(bufferview.byteOffset) ELSE 0
    IN  IF binary
        THEN CASE buffer.data.kind = "unbound" ->
                    [exc |-> "KeyError", data |-> {}, base |-> 0]
               [] buffer.data.kind = "none" ->
                    IF Has(bufferview.byteOffset)
                    THEN [exc |-> "TypeError", data |-> {}, base |-> 0]
                    ELSE [exc |-> "", data |-> {}, base |-> 0]
               [] buffer.data.kind = "bytes" ->
                    [exc |-> "",
                     data |-> {Slice(buffer.data.bytes, bo, Len(buffer.data.bytes))},
                     base |-> bo]
        ELSE IF ~Has(buffer.uri)
        THEN [exc |-> "KeyError", data |-> {}, base |-> 0]
        ELSE LET uri == Get(buffer.uri)
             IN  IF uri.scheme = "data"
                 THEN [exc |-> "",
                       data |-> {Slice(uri.bytes, bo, Len(uri.bytes))},
                       base |-> bo]
                 ELSE IF ~uri.exists
                 THEN [exc |-> "IOError", data |-> {}, base |-> 0]
                 ELSE [exc |-> "",
                       data |-> {Slice(uri.bytes, bo, bo + bufferview.byteLength)},
                       base |-> bo]

\* mutant of Format: BYTE and SHORT decoded as 'b' and 'h'
Format_signed(accessor) ==
    LET t == accessor.componentType
    IN  CASE t \in {FLOAT, UNSIGNED_INT} -> [data_type |-> "I", size |-> 4, divisor |-> 1]
          [] t \in {SHORT, UNSIGNED_SHORT} -> [data_type |-> "h", size |-> 2, divisor |-> 1]
          [] OTHER -> [data_type |-> "b", size |-> 1, divisor |-> 1]

\* lines 355-373: struct format, its size and the normalization divisor
Format(accessor) ==
    LET normalized == Has(accessor.normalized) /\ Get(accessor.normalized) = TRUE
        t == accessor.componentType
    IN  CASE t = FLOAT -> [data_type |-> "f", size |-> 4, divisor |-> 1]
          [] t = UNSIGNED_INT -> [data_type |-> "I", size |-> 4, divisor |-> 1]
          [] t = UNSIGNED_SHORT ->
                [data_type |-> "H", size |-> 2,
                 divisor |-> IF normalized THEN ShortDivisor ELSE 1]
          [] t = UNSIGNED_BYTE ->
                [data_type |-> "B", size |-> 1,
                 divisor |-> IF normalized THEN ByteDivisor ELSE 1]
          [] OTHER -> [data_type |-> "", size |-> 4, divisor |-> 1]

Stride(accessor, bufferview) ==
    IF Has(bufferview.byteStride)
    THEN Get(bufferview.byteStride)
    ELSE accessor_type_count(accessor.type)
            * accessor_component_type_bytesize(accessor.componentType)

\* line 378: x for entry i, component j
ComponentOffset(accessor, bufferview, i, j) ==
    (IF Has(accessor.byteOffset) THEN Get(accessor.byteOffset) ELSE 0)
        + i * Stride(accessor, bufferview)
        + j * accessor_component_type_bytesize(accessor.componentType)

Raise(exc) == [status |-> "raised", exc |-> exc, reads |-> {}]

\* lines 375-389: the decode loop over the bytes of src
DecodeLoop(accessor, bufferview, src) ==
    LET fmt == Format(accessor)
        n == accessor_type_count(accessor.type)
        X(i, j) == ComponentOffset(accessor, bufferview, i, j)
        Window(i, j) == Slice(Get(src.data), X(i, j), X(i, j) + fmt.size)
        entry(i) == Entry([j \in 1..n |->
                        Number(fmt.data_type, unpack(Window(i, j - 1)), fmt.divisor)])
    IN  IF accessor.count = 0
        THEN [status |-> "returned", value |-> <<>>, reads |-> {}]
        ELSE IF ~Has(src.data)
        THEN Raise("TypeError")
        ELSE IF \E i \in 0..(accessor.count - 1), j \in 0..(n - 1) :
                    Len(Window(i, j)) # fmt.size
        THEN Raise("struct.error")
        ELSE [status |-> "returned",
              value |-> [i \in 1..accessor.count |-> entry(i - 1)],
              reads |-> {src.base + X(i, j) + k :
                            i \in 0..(accessor.count - 1), j \in 0..(n - 1),
                            k \in 0..(fmt.size - 1)}]

\* lines 320-389: a get_data call that finds no cache entry
Decode(accessor) ==
    LET bufferview == Doc.bufferViews[accessor.bufferView + 1]
        buffer == Doc.buffers[bufferview.buffer + 1]
        src == BufferSource(bufferview, buffer)
    IN  IF src.exc # "" THEN Raise(src.exc)
        ELSE IF accessor.componentType \notin AccessorComponentType
        THEN Raise("ValueError")
        ELSE IF Format(accessor).data_type = ""
        THEN Raise("Exception")
        ELSE DecodeLoop(accessor, bufferview, src)

\* mutant of CacheHit: the cache is never consulted
CacheHit_never(accessor_index) == FALSE

\* line 317: accessor_index in self._accessor_data_map.keys()
CacheHit(accessor_index) == accessor_index \in DOMAIN accessor_data_map

\* line 345: data_arr = [] creates a list object; obj is its identity
NewList(data) == [obj |-> Cardinality(DOMAIN accessor_data_map) + 1, data |-> data]

\* line 388: self._accessor_data_map[accessor_index] = data_arr
CacheStore(accessor_index, data_arr) ==
    [k \in DOMAIN accessor_data_map \cup {accessor_index} |->
        IF k = accessor_index THEN data_arr ELSE accessor_data_map[k]]

get_data(accessor, accessor_index) ==
    /\ pc = "ready"
    /\ call' = <<[accessor |-> accessor, index |-> accessor_index]>>
    /\ IF CacheHit(accessor_index)
       THEN /\ ret' = [status |-> "returned", value |-> accessor_data_map[accessor_index]]
            /\ reads' = {}
            /\ UNCHANGED accessor_data_map
       ELSE LET r == Decode(accessor)
                data_arr == NewList(r.value)
            IN  /\ reads' = r.reads
                /\ IF r.status = "returned"
                   THEN /\ ret' = [status |-> "returned", value |-> data_arr]
                        /\ accessor_data_map' = CacheStore(accessor_index, data_arr)
                   ELSE /\ ret' = [status |-> "raised", exc |-> r.exc]
                        /\ UNCHANGED accessor_data_map
    /\ UNCHANGED <<pc, binary, json_data, loadVars, graphVars>>

(***************************************************************************)
(* Loaders to decode from: a constructed loader over a document with one   *)
(* buffer, one buffer view and one or two accessors.                       *)
(***************************************************************************)
\* byte k (from 0) of the buffer contents: two 255 bytes, then distinct values
PatternByte(k) == IF k < 2 THEN 255 ELSE (37 * k + 5) % 128
Bytes(n) == [k \in 1..n |-> PatternByte(k - 1)]
ByteStrings == {Bytes(n) : n \in 0..MaxBufLen}

Unbound == [kind |-> "unbound"]
Bound(bytes) == [kind |-> "bytes", bytes |-> bytes]
BoundNone == [kind |-> "none"]
DataUri(bytes) == [scheme |-> "data", bytes |-> bytes]
FileUri(exists, bytes) == [scheme |-> "file", exists |-> exists, bytes |-> bytes]

BinaryBuffers ==
    {[byteLength |-> 0, uri |-> {}, data |-> Unbound],
     [byteLength |-> 0, uri |-> {}, data |-> BoundNone]}
    \cup {[byteLength |-> Len(b), uri |-> {}, data |-> Bound(b)] : b \in ByteStrings}
TextBuffers ==
    {[byteLength |-> 0, uri |-> {FileUri(FALSE, <<>>)}, data |-> Unbound]}
    \cup {[byteLength |-> Len(b), uri |-> {DataUri(b)}, data |-> Unbound] :
            b \in ByteStrings}
    \cup {[byteLength |-> Len(b), uri |-> {FileUri(TRUE, b)}, data |-> Unbound] :
            b \in ByteStrings}

BufferViews ==
    [buffer : {0},
     byteOffset : {{}, {1}},
     byteLength : {2, MaxBufLen},
     byteStride : {{}} \cup {{s} : s \in 1..MaxStride}]

ComponentTypeValues == AccessorComponentType \cup {5124}
Accessors ==
    [bufferView : {0},
     byteOffset : {{}, {1}},
     componentType : ComponentTypeValues,
     type : {"SCALAR", "VEC2"},
     count : 0..MaxCount,
     normalized : {{}, {TRUE}}]

\* the accessors of the documents that hold two
PairedAccessors ==
    {a \in Accessors : a.byteOffset = {} /\ a.count = 1 /\ a.normalized = {}}
PairedViews ==
    {v \in BufferViews : v.byteOffset = {} /\ v.byteLength = MaxBufLen /\ v.byteStride = {}}
PairedBuffers(b) ==
    IF b THEN {x \in BinaryBuffers : x.byteLength = MaxBufLen}
         ELSE {x \in TextBuffers : x.byteLength = MaxBufLen}

AccessorIndices == {0, 1}

Document(buffer, view, accessors) ==
    [buffers |-> <<buffer>>, bufferViews |-> <<view>>, accessors |-> accessors,
     nodes |-> <<>>, scenes |-> {}, scene |-> {}]

InitLoaded ==
    /\ gltf_file = [extension |-> ""]
    /\ next_chunk = 0
    /\ total_bytes_read = 0
    /\ error = <<>>
    /\ chunks_read = 0
    /\ json_parsed = 1
    /\ stages = <<"asset", "images", "materials", "meshes", "nodes", "skins",
                  "scenes", "animations">>
    /\ nodes = <<>>
    /\ scenes = <<>>
    /\ main_scene = {}

Init ==
    /\ pc = "ready"
    /\ binary \in BOOLEAN
    /\ \/ \E buffer \in (IF binary THEN BinaryBuffers ELSE TextBuffers),
             view \in BufferViews, a \in Accessors :
                json_data = {Document(buffer, view, <<a>>)}
       \/ \E buffer \in PairedBuffers(binary), view \in PairedViews,
             a \in PairedAccessors, b \in PairedAccessors :
                json_data = {Document(buffer, view, <<a, b>>)}
    /\ accessor_data_map = <<>>
    /\ call = <<>>
    /\ ret = [status |-> "none"]
    /\ reads = {}
    /\ InitLoaded

Next ==
    \E k \in DOMAIN Doc.accessors, accessor_index \in AccessorIndices :
        get_data(Doc.accessors[k], accessor_index)

Spec == Init /\ [][Next]_vars

(***************************************************************************)
(* __init__ on a .glb file: the binary container demuxer (lines 137-172).  *)
(* A file is its 12-byte header, whole chunks, and a tail: the last chunk  *)
(* may lack its final `missing` payload bytes, or a partial chunk header   *)
(* (1 to 7 bytes) may follow the last chunk.  A JSON chunk's payload is    *)
(* the document text followed by `pad` spaces.                             *)
(***************************************************************************)
MAGIC == 1179937895          \* 0x46546C67
JSON_CHUNK == 1313821514     \* 0x4E4F534A
BINARY_CHUNK == 5130562      \* 0x004E4942

MaxChunks == 2       \* a container holds 0..MaxChunks chunks
MaxChunkLen == 2     \* a chunk declares 0..MaxChunkLen payload bytes

HttpUri(ok, bytes) == [scheme |-> "http", ok |-> ok, bytes |-> bytes]
EmptyUri == [scheme |-> ""]

\* load_uri(s, folder): the bytes, None, or the exception raised
load_uri(s) ==
    CASE s.scheme = "data" -> [exc |-> "", data |-> Bound(s.bytes)]
      [] s.scheme = "http" ->
            IF ~s.ok THEN [exc |-> "", data |-> BoundNone]
            ELSE [exc |-> "", data |-> Bound(s.bytes)]
      [] OTHER ->
            IF s.scheme = "file" /\ s.exists
            THEN [exc |-> "", data |-> Bound(s.bytes)]
            ELSE [exc |-> "IOError", data |-> Unbound]

Fail(exc, at) ==
    /\ pc' = "failed"
    /\ error' = <<[exc |-> exc, at |-> at]>>

\* bytes of chunk k that the file holds
Present(k) ==
    gltf_file.chunks[k].chunk_size
        - (IF k = Len(gltf_file.chunks) THEN gltf_file.missing ELSE 0)

\* lines 142-150
ReadHeader ==
    /\ pc = "header"
    /\ IF gltf_file.magic = MAGIC
       THEN IF gltf_file.glb_version # 2
            THEN /\ Fail("NotImplementedError", "header")
                 /\ UNCHANGED <<total_bytes_read, binary>>
            ELSE /\ total_bytes_read' = 12
                 /\ pc' = "chunks"
                 /\ UNCHANGED <<error, binary>>
       ELSE /\ binary' = TRUE
            /\ pc' = "initialize"
            /\ UNCHANGED <<error, total_bytes_read>>
    /\ UNCHANGED <<gltf_file, next_chunk, json_data, chunks_read, json_parsed,
                   graphVars, dataVars>>

\* mutant of BindChunk: the chunk bound without the slice
BindChunk_whole(chunk, byteLength) == Bound(chunk)

\* line 169: buffer['data'] = bytearray(chunk)[:buffer['byteLength']]
BindChunk(chunk, byteLength) == Bound(Slice(chunk, 0, byteLength))

Raised(exc, at, jd) == [exc |-> exc, at |-> at, json_data |-> jd, parsed |-> 0]

\* lines 164-169: the BINARY_CHUNK branch, on self.json_data = jd
BindBinary(jd, chunk) ==
    IF jd = {} THEN Raised("AttributeError", "binary chunk", jd)
    ELSE IF Get(jd).buffers = <<>> THEN Raised("LookupError", "binary chunk", jd)
    ELSE LET buffer == Get(jd).buffers[1]
             uses_uri == Has(buffer.uri) /\ Get(buffer.uri) # EmptyUri
             loaded == IF uses_uri THEN load_uri(Get(buffer.uri))
                       ELSE [exc |-> "", data |-> BindChunk(chunk, buffer.byteLength)]
         IN  IF loaded.exc # "" THEN Raised(loaded.exc, "binary chunk", jd)
             ELSE [exc |-> "", at |-> "",
                   json_data |->
                      {[Get(jd) EXCEPT !.buffers[1] = [buffer EXCEPT !.data = loaded.data]]},
                   parsed |-> 0]

\* lines 162-171: a chunk of header c and `present` payload bytes, dispatched
\* on its type tag
Dispatch(jd, c, present, document) ==
    CASE c.chunk_type = JSON_CHUNK ->
            IF present >= c.chunk_size - c.pad
            THEN [exc |-> "", at |-> "", json_data |-> {document}, parsed |-> 1]
            ELSE [Raised("ValueError", "json chunk", jd) EXCEPT !.parsed = 1]
      [] c.chunk_type = BINARY_CHUNK -> BindBinary(jd, Bytes(present))
      [] OTHER -> Raised("TypeError", "chunk type", jd)

\* lines 152-171, one pass of the loop that finds a chunk header
ReadChunk ==
    /\ pc = "chunks"
    /\ next_chunk <= Len(gltf_file.chunks)
    /\ LET c == gltf_file.chunks[next_chunk]
           r == Dispatch(json_data, c, Present(next_chunk), gltf_file.document)
       IN  /\ total_bytes_read' = total_bytes_read + 8 + c.chunk_size
           /\ chunks_read' = chunks_read + 1
           /\ next_chunk' = next_chunk + 1
           /\ json_parsed' = json_parsed + r.parsed
           /\ json_data' = r.json_data
           /\ IF r.exc # "" THEN Fail(r.exc, r.at) ELSE UNCHANGED <<pc, error>>
    /\ UNCHANGED <<gltf_file, binary, graphVars, dataVars>>

\* lines 152-157 and 159: the pass of the loop that finds no whole header.
\* The raise of line 155 adds a str and a uint32, which is a TypeError.
EndOfChunks ==
    /\ pc = "chunks"
    /\ next_chunk > Len(gltf_file.chunks)
    /\ IF gltf_file.partial_header
       THEN Fail("ValueError", "chunk header") /\ UNCHANGED binary
       ELSE IF total_bytes_read # gltf_file.file_size
       THEN Fail("TypeError", "byte count") /\ UNCHANGED binary
       ELSE /\ binary' = TRUE
            /\ pc' = "initialize"
            /\ UNCHANGED error
    /\ UNCHANGED <<gltf_file, next_chunk, total_bytes_read, json_data, chunks_read,
                   json_parsed, graphVars, dataVars>>

\* lines 174-180: a .gltf file
LoadText ==
    /\ pc = "text"
    /\ json_parsed' = json_parsed + 1
    /\ IF gltf_file.valid
       THEN /\ json_data' = {gltf_file.document}
            /\ binary' = FALSE
            /\ pc' = "initialize"
            /\ UNCHANGED error
       ELSE /\ Fail("ValueError", "json")
            /\ UNCHANGED <<json_data, binary>>
    /\ UNCHANGED <<gltf_file, next_chunk, total_bytes_read, chunks_read,
                   graphVars, dataVars>>

(***************************************************************************)
(* _initialize: the graph assembly stages (lines 184-296).                 *)
(***************************************************************************)
MaxNodes == 3        \* a document lists 0..MaxNodes nodes
MaxEdges == 2        \* the children lists of a document hold 0..MaxEdges entries
MaxScenes == 2       \* a document lists 0..MaxScenes scenes

Stages == <<"asset", "images", "materials", "meshes", "nodes", "skins", "scenes",
            "animations">>

\* seq[i] of Python: whether i is in range, and the position it names
InRange(n, i) == -n <= i /\ i < n
Position(n, i) == IF i < 0 THEN n + i ELSE i

\* Node(node_entry, i, self): a node without parent and without children
Node(i) == [index |-> i, _parent |-> {}, _children |-> <<>>]

\* mutant of AddChild: a parent already set is kept
AddChild_first_parent(ns, i, child_index) ==
    LET c == Position(Len(ns), child_index)
    IN  [k \in 1..Len(ns) |->
            [ns[k] EXCEPT
                !._parent = IF k = c + 1 /\ @ = {} THEN {i} ELSE @,
                !._children = IF k = i + 1 THEN Append(@, c) ELSE @]]

\* lines 219-223 for one child_index of the children of node i
AddChild(ns, i, child_index) ==
    LET c == Position(Len(ns), child_index)
    IN  [k \in 1..Len(ns) |->
            [ns[k] EXCEPT
                !._parent = IF k = c + 1 THEN {i} ELSE @,
                !._children = IF k = i + 1 THEN Append(@, c) ELSE @]]

\* the (node, child_index) pairs in the order lines 217-220 visit them
RECURSIVE Visits(_, _)
Visits(entries, i) ==
    IF i >= Len(entries) THEN <<>>
    ELSE [k \in 1..Len(entries[i + 1].children) |-> <<i, entries[i + 1].children[k]>>]
            \o Visits(entries, i + 1)

RECURSIVE Wire(_, _)
Wire(ns, visits) ==
    IF visits = <<>> THEN [exc |-> "", nodes |-> ns]
    ELSE IF ~InRange(Len(ns), Head(visits)[2])
    THEN [exc |-> "IndexError", nodes |-> ns]
    ELSE Wire(AddChild(ns, Head(visits)[1], Head(visits)[2]), Tail(visits))

\* lines 210-223
initialize_nodes(doc) ==
    Wire([k \in 1..Len(doc.nodes) |-> Node(k - 1)], Visits(doc.nodes, 0))

\* lines 241-244: the index of the main scene among n scenes
MainScene(doc, n) ==
    IF Has(doc.scene)
    THEN IF InRange(n, Get(doc.scene))
         THEN [exc |-> "", main |-> {Position(n, Get(doc.scene))}]
         ELSE [exc |-> "IndexError", main |-> {}]
    ELSE IF n > 0 THEN [exc |-> "", main |-> {0}]
         ELSE [exc |-> "IndexError", main |-> {}]

\* lines 233-244
initialize_scenes(doc) ==
    IF Has(doc.scenes)
    THEN LET n == Len(Get(doc.scenes))
             m == MainScene(doc, n)
         IN  [exc |-> m.exc, scenes |-> [k \in 1..n |-> k - 1], main |-> m.main]
    ELSE [exc |-> "", scenes |-> <<>>, main |-> {}]

\* line 258
get_main_scene == main_scene

\* lines 182-195: the stages in order, up to the first that raises
Initialize ==
    /\ pc = "initialize"
    /\ IF json_data = {}
       THEN /\ Fail("AttributeError", "asset")
            /\ stages' = SubSeq(Stages, 1, 1)
            /\ UNCHANGED <<nodes, scenes, main_scene>>
       ELSE LET n == initialize_nodes(Doc)
                sc == initialize_scenes(Doc)
            IN  IF n.exc # ""
                THEN /\ Fail(n.exc, "nodes")
                     /\ stages' = SubSeq(Stages, 1, 5)
                     /\ UNCHANGED <<nodes, scenes, main_scene>>
                ELSE IF sc.exc # ""
                THEN /\ Fail(sc.exc, "scenes")
                     /\ stages' = SubSeq(Stages, 1, 7)
                     /\ nodes' = n.nodes
                     /\ UNCHANGED <<scenes, main_scene>>
                ELSE /\ pc' = "ready"
                     /\ stages' = Stages
                     /\ nodes' = n.nodes
                     /\ scenes' = sc.scenes
                     /\ main_scene' = sc.main
                     /\ UNCHANGED error
    /\ UNCHANGED <<gltf_file, next_chunk, total_bytes_read, binary, json_data,
                   chunks_read, json_parsed, dataVars>>

InitUnloaded ==
    /\ next_chunk = 1
    /\ total_bytes_read = 0
    /\ binary = FALSE
    /\ json_data = {}
    /\ error = <<>>
    /\ chunks_read = 0
    /\ json_parsed = 0
    /\ stages = <<>>
    /\ nodes = <<>>
    /\ scenes = <<>>
    /\ main_scene = {}
    /\ accessor_data_map = <<>>
    /\ call = <<>>
    /\ ret = [status |-> "none"]
    /\ reads = {}

(***************************************************************************)
(* The .glb files the loader is constructed from.                          *)
(***************************************************************************)
UriBytes == <<17, 34, 51>>
Uris == {EmptyUri, DataUri(UriBytes), HttpUri(TRUE, UriBytes), HttpUri(FALSE, <<>>),
         FileUri(TRUE, UriBytes), FileUri(FALSE, <<>>)}

GlbDocument(buffers) ==
    [buffers |-> buffers, bufferViews |-> <<>>, accessors |-> <<>>,
     nodes |-> <<>>, scenes |-> {}, scene |-> {}]
GlbDocuments ==
    {GlbDocument(<<>>)}
    \cup {GlbDocument(<<[byteLength |-> n, uri |-> u, data |-> Unbound]>>) :
            n \in 0..(MaxChunkLen + 1), u \in {{}} \cup {{x} : x \in Uris}}

Chunks ==
    [chunk_type : {JSON_CHUNK, BINARY_CHUNK, 0}, chunk_size : 0..MaxChunkLen, pad : {0, 1}]
ChunkLists ==
    UNION {[1..n -> {c \in Chunks :
                        /\ c.pad > 0 => (c.chunk_type = JSON_CHUNK /\ c.chunk_size > c.pad)
                        /\ c.chunk_type = JSON_CHUNK => c.chunk_size > 0
                        /\ c.chunk_type = 0 => c.chunk_size = 0}] : n \in 0..MaxChunks}

DeclaredBytes(chunks) ==
    LET RECURSIVE Sum(_)
        Sum(k) == IF k = 0 THEN 12 ELSE 8 + chunks[k].chunk_size + Sum(k - 1)
    IN  Sum(Len(chunks))
LastSize(chunks) == IF chunks = <<>> THEN 0 ELSE chunks[Len(chunks)].chunk_size

GlbFile(m, v, size, chunks, missing, partial, doc) ==
    [extension |-> ".glb", magic |-> m, glb_version |-> v, file_size |-> size,
     chunks |-> chunks, missing |-> missing, partial_header |-> partial,
     document |-> doc]

InitLoad ==
    /\ pc = "header"
    /\ \E chunks \in ChunkLists, m \in {MAGIC, 0}, v \in {1, 2}, doc \in GlbDocuments :
         \E missing \in 0..LastSize(chunks) :
           \E partial \in {p \in BOOLEAN : p => missing = 0},
              size \in {DeclaredBytes(chunks) - d : d \in {0, 1, missing}} :
                gltf_file = GlbFile(m, v, size, chunks, missing, partial, doc)
    /\ InitUnloaded

NextLoad == ReadHeader \/ ReadChunk \/ EndOfChunks \/ Initialize

SpecLoad == InitLoad /\ [][NextLoad]_vars

(***************************************************************************)
(* The .gltf files the graph is assembled from.                            *)
(***************************************************************************)
\* node entries for n nodes whose children lists are given by edges, a
\* sequence of (node, child index) pairs
NodeEntries(n, edges) ==
    [i \in 1..n |->
        [children |->
            LET RECURSIVE Of(_)
                Of(k) == IF k = 0 THEN <<>>
                         ELSE IF edges[k][1] = i - 1 THEN Append(Of(k - 1), edges[k][2])
                         ELSE Of(k - 1)
            IN  Of(Len(edges))]]
SceneLists == {{}} \cup {{[k \in 1..n |-> [nodes |-> <<>>]]} : n \in 0..MaxScenes}
SceneIndices == {{}} \cup {{i} : i \in -1..MaxScenes}

GltfDocument(nodeEntries, sceneEntries, scene) ==
    [buffers |-> <<>>, bufferViews |-> <<>>, accessors |-> <<>>,
     nodes |-> nodeEntries, scenes |-> sceneEntries, scene |-> scene]
GltfFile(valid, doc) == [extension |-> ".gltf", valid |-> valid, document |-> doc]

InitGraph ==
    /\ pc = "text"
    /\ \/ gltf_file = GltfFile(FALSE, GltfDocument(<<>>, {}, {}))
       \/ \E n \in 0..MaxNodes, e \in 0..MaxEdges,
             sceneEntries \in SceneLists, scene \in SceneIndices :
            \E edges \in [1..e -> (0..(n - 1)) \X (-1..(MaxNodes - 1))] :
                gltf_file = GltfFile(TRUE, GltfDocument(NodeEntries(n, edges),
                                                        sceneEntries, scene))
    /\ InitUnloaded

NextGraph == LoadText \/ Initialize

SpecGraph == InitGraph /\ [][NextGraph]_vars

(***************************************************************************)
(* Claims about get_data.                                                  *)
(***************************************************************************)
Called == call # <<>>
CallAccessor == call[1].accessor
CallIndex == call[1].index
CallView == Doc.bufferViews[CallAccessor.bufferView + 1]
CallBuffer == Doc.buffers[CallView.buffer + 1]
Supported(accessor) ==
    accessor.componentType \in {UNSIGNED_BYTE, UNSIGNED_SHORT, UNSIGNED_INT, FLOAT}

\* the buffer's bytes, when the document binds them
BytesBound(buffer) ==
    IF binary THEN buffer.data.kind = "bytes"
    ELSE Has(buffer.uri) /\ (Get(buffer.uri).scheme = "file" => Get(buffer.uri).exists)
BufferBytes(buffer) == IF binary THEN buffer.data.bytes ELSE Get(buffer.uri).bytes
IsFile(buffer) == ~binary /\ Has(buffer.uri) /\ Get(buffer.uri).scheme = "file"

OffsetOf(x) == IF Has(x.byteOffset) THEN Get(x.byteOffset) ELSE 0
ExpectedStride(accessor, view) ==
    IF Has(view.byteStride) THEN Get(view.byteStride)
    ELSE accessor_type_count(accessor.type)
            * accessor_component_type_bytesize(accessor.componentType)
\* offset of component j of entry i within the buffer view
InView(accessor, view, i, j) ==
    OffsetOf(accessor) + i * ExpectedStride(accessor, view)
        + j * accessor_component_type_bytesize(accessor.componentType)
Components(accessor) ==
    (0..(accessor.count - 1)) \X (0..(accessor_type_count(accessor.type) - 1))

FitsBuffer(accessor, view, buffer) ==
    /\ BytesBound(buffer)
    /\ \A c \in Components(accessor) :
          OffsetOf(view) + InView(accessor, view, c[1], c[2])
             + accessor_component_type_bytesize(accessor.componentType)
                <= Len(BufferBytes(buffer))
FitsView(accessor, view) ==
    \A c \in Components(accessor) :
        InView(accessor, view, c[1], c[2])
            + accessor_component_type_bytesize(accessor.componentType)
                <= view.byteLength

\* the little-endian value of the size bytes at position pos (from 0)
ExpectedLE(bytes, pos, size) ==
    bytes[pos + 1]
      + (IF size > 1 THEN 256 * bytes[pos + 2] ELSE 0)
      + (IF size > 2 THEN 65536 * bytes[pos + 3] + 16777216 * bytes[pos + 4] ELSE 0)
ExpectedAt(accessor, view, buffer, i, j) ==
    ExpectedLE(BufferBytes(buffer),
               OffsetOf(view) + InView(accessor, view, i, j),
               accessor_component_type_bytesize(accessor.componentType))
ExpectedDivisor(accessor) ==
    IF accessor.normalized = {TRUE} /\ accessor.componentType = UNSIGNED_BYTE THEN 255
    ELSE IF accessor.normalized = {TRUE} /\ accessor.componentType = UNSIGNED_SHORT
    THEN 65535 ELSE 1

\* the number num/den is the integer v
IsInteger(number, v) == number.num = v /\ (number.den = 1 \/ v = 0)

\* the returned sequence has count entries shaped by the type, and each
\* component satisfies Good(number, i, j)
Shaped(r, accessor, Good(_, _, _)) ==
    /\ r.status = "returned"
    /\ Len(r.value.data) = accessor.count
    /\ \A c \in Components(accessor) :
          LET e == r.value.data[c[1] + 1]
          IN  /\ e.scalar <=> accessor_type_count(accessor.type) = 1
              /\ Len(e.comps) = accessor_type_count(accessor.type)
              /\ Good(e.comps[c[2] + 1], c[1], c[2])

\* C1: once get_data has returned a sequence for index i, the entry of i is
\* never evicted or replaced, and every later call with index i, whatever the
\* accessor passed, returns that same list object and decodes no buffer byte.
C1_CacheKeyedByIndex ==
    [][\A i \in DOMAIN accessor_data_map :
          /\ i \in DOMAIN accessor_data_map'
          /\ accessor_data_map'[i] = accessor_data_map[i]
          /\ (call'[1].index = i =>
                /\ ret' = [status |-> "returned", value |-> accessor_data_map[i]]
                /\ reads' = {})]_vars

\* a call answered from the cache although the accessor passed cannot be
\* decoded, with both indices cached
C1_Witness ==
    /\ Called
    /\ DOMAIN accessor_data_map = AccessorIndices
    /\ accessor_data_map[0].obj # accessor_data_map[1].obj
    /\ ret = [status |-> "returned", value |-> accessor_data_map[CallIndex]]
    /\ ret.value.data # <<>>
    /\ reads = {}
    /\ Decode(CallAccessor).status = "raised"

\* C2 as stated: a supported accessor whose byte ranges fit in the buffer gets
\* count entries whose components are the little-endian values of the bytes at
\* bufferView.byteOffset + accessor.byteOffset + i*stride + j*componentByteSize.
C2_Original ==
    (Called /\ Supported(CallAccessor) /\ FitsBuffer(CallAccessor, CallView, CallBuffer))
    => Shaped(ret, CallAccessor,
              LAMBDA number, i, j :
                  IsInteger(number, ExpectedAt(CallAccessor, CallView, CallBuffer, i, j)))

\* C2 amended: a call for an index without a cache entry, with a supported
\* accessor whose byte ranges fit in the buffer (and, for an external file, in
\* the buffer view's byteLength), returns count entries whose components are
\* the little-endian values divided by 255 (normalized UNSIGNED_BYTE), by
\* 65535 (normalized UNSIGNED_SHORT) or by 1, shaped as scalars or tuples.
C2_DecodedValues ==
    [][(/\ ~CacheHit(call'[1].index)
        /\ Supported(call'[1].accessor)
        /\ FitsBuffer(call'[1].accessor, CallView', CallBuffer')
        /\ (IsFile(CallBuffer') => FitsView(call'[1].accessor, CallView')))
       => Shaped(ret', call'[1].accessor,
                 LAMBDA number, i, j :
                     number = Number(Format(call'[1].accessor).data_type,
                                     ExpectedAt(call'[1].accessor, CallView', CallBuffer', i, j),
                                     ExpectedDivisor(call'[1].accessor)))]_vars

\* a strided, offset, normalized VEC2 array of two entries was decoded
C2_Witness ==
    /\ Called
    /\ CallAccessor.componentType = UNSIGNED_BYTE
    /\ CallAccessor.normalized = {TRUE}
    /\ CallAccessor.type = "VEC2"
    /\ CallAccessor.count = 2
    /\ Has(CallAccessor.byteOffset)
    /\ Has(CallView.byteStride) /\ Has(CallView.byteOffset)
    /\ ret.status = "returned"
    /\ Cardinality(reads) = 4
    /\ ret.value.data[1].comps[1].den = 255

\* every component of the geometry lies in the view and in the bound bytes
Underrun(accessor, view, buffer) ==
    ~FitsView(accessor, view) \/ ~FitsBuffer(accessor, view, buffer)

\* C7 as stated: a call whose geometry needs bytes beyond the buffer view's
\* byteLength or beyond the bound buffer data fails and caches nothing.
C7_UnderrunFails ==
    (Called /\ Supported(CallAccessor) /\ BytesBound(CallBuffer)
        /\ Underrun(CallAccessor, CallView, CallBuffer))
    => (ret.status = "raised" /\ CallIndex \notin DOMAIN accessor_data_map)

Unsupported(accessor) ==
    accessor.componentType \in {BYTE, SHORT}
        \/ accessor.componentType \notin AccessorComponentType

Constructed == pc = "ready"
Ended == pc \in {"ready", "failed"}
FailedAt(at) == pc = "failed" /\ error[1].at = at

\* 12 plus, per chunk, 8 plus the payload bytes the file holds for it
BytesPresent ==
    LET RECURSIVE Sum(_)
        Sum(k) == IF k = 0 THEN 12 ELSE 8 + Present(k) + Sum(k - 1)
    IN  Sum(Len(gltf_file.chunks))

\* C3 as stated: a container whose totalByteLength differs from the header
\* and chunk bytes the file holds is never loaded.
C3_TruncatedFails ==
    gltf_file.file_size # BytesPresent => ~Constructed

\* C4 as stated: a wrong magic fails at the header check, before any chunk
\* is read, any JSON is parsed or any assembly stage is entered.
C4_BadMagicFailsAtHeader ==
    (gltf_file.magic # MAGIC /\ Ended)
    => (FailedAt("header") /\ chunks_read = 0 /\ json_parsed = 0 /\ stages = <<>>)

Reverse(seq) == [k \in 1..Len(seq) |-> seq[Len(seq) + 1 - k]]
CountOf(type) ==
    Cardinality({k \in 1..Len(gltf_file.chunks) : gltf_file.chunks[k].chunk_type = type})

\* the chunk loop run on the whole chunks of a list, from an unset json_data
RECURSIVE RunChunks(_, _)
RunChunks(jd, chunks) ==
    IF chunks = <<>> THEN [exc |-> "", json_data |-> jd]
    ELSE LET r == Dispatch(jd, Head(chunks), Head(chunks).chunk_size, gltf_file.document)
         IN  IF r.exc # "" THEN [exc |-> r.exc, json_data |-> r.json_data]
             ELSE RunChunks(r.json_data, Tail(chunks))

ChunkLoopOver ==
    \/ pc \in {"initialize", "ready"}
    \/ pc = "failed" /\ error[1].at # "header"
ChunkLoopFailed ==
    pc = "failed" /\ error[1].at \in {"json chunk", "binary chunk", "chunk type"}

\* C9 as stated: with exactly one JSON chunk and at most one binary chunk, all
\* whole, the demuxer ends with the document and buffers[0] data that it ends
\* with when the chunks come in the other order.
C9_ChunkOrderIrrelevant ==
    (/\ ChunkLoopOver
     /\ gltf_file.magic = MAGIC /\ gltf_file.glb_version = 2
     /\ CountOf(JSON_CHUNK) = 1 /\ CountOf(BINARY_CHUNK) <= 1
     /\ Len(gltf_file.chunks) = CountOf(JSON_CHUNK) + CountOf(BINARY_CHUNK)
     /\ gltf_file.missing = 0 /\ ~gltf_file.partial_header)
    => LET other == RunChunks({}, Reverse(gltf_file.chunks))
       IN  IF ChunkLoopFailed THEN other.exc # ""
           ELSE other.exc = "" /\ other.json_data = json_data

\* a binary chunk has just been bound to buffers[0]
BinaryChunkBound ==
    /\ pc = "chunks"
    /\ next_chunk > 1
    /\ gltf_file.chunks[next_chunk - 1].chunk_type = BINARY_CHUNK
BoundChunkLen == Present(next_chunk - 1)
DeclaresUri(buffer) == Has(buffer.uri)
UriResolvesTo(buffer) == Bound(Get(buffer.uri).bytes)

\* C10 as stated: without a uri the bound data has exactly byteLength bytes;
\* with a uri the bound data is the bytes the URI resolves to.
C10_Original ==
    BinaryChunkBound
    => LET buffer == Doc.buffers[1]
       IN  IF DeclaresUri(buffer)
           THEN buffer.data = UriResolvesTo(buffer)
           ELSE buffer.data.kind = "bytes" /\ Len(buffer.data.bytes) = buffer.byteLength

\* C10 amended: without a uri, or with an empty one, the bound data is the
\* first min(chunk length, byteLength) bytes of the chunk: a longer chunk is
\* truncated, a shorter chunk is bound whole and not padded.  With a non-empty
\* uri the bound data is what the URI resolves to (None after a failed HTTP
\* fetch) and the chunk payload is not used.
C10_BoundData ==
    BinaryChunkBound
    => LET buffer == Doc.buffers[1]
           uri == Get(buffer.uri)
       IN  IF DeclaresUri(buffer) /\ uri.scheme # ""
           THEN IF uri.scheme = "http" /\ ~uri.ok
                THEN buffer.data = BoundNone
                ELSE buffer.data = UriResolvesTo(buffer)
           ELSE /\ buffer.data.kind = "bytes"
                /\ Len(buffer.data.bytes) = Min(BoundChunkLen, buffer.byteLength)
                /\ \A k \in 1..Len(buffer.data.bytes) :
                      buffer.data.bytes[k] = PatternByte(k - 1)

\* a chunk shorter than byteLength was bound, unpadded
C10_Witness ==
    /\ BinaryChunkBound
    /\ ~DeclaresUri(Doc.buffers[1])
    /\ BoundChunkLen > 0
    /\ Len(Doc.buffers[1].data.bytes) = BoundChunkLen
    /\ BoundChunkLen < Doc.buffers[1].byteLength

(***************************************************************************)
(* Claims about the assembled graph.                                       *)
(***************************************************************************)
Document0 == gltf_file.document
SceneCount == IF Has(Document0.scenes) THEN Len(Get(Document0.scenes)) ELSE 0
\* the scenes stage was reached: it completed or it raised
ScenesStageEnded == Constructed \/ FailedAt("scenes")

\* C5 as stated: get_main_scene returns scene `scene` when the key is present
\* and in 0..number of scenes - 1, scene 0 when the key is absent and a scene
\* exists, and none, without raising, when no scenes exist (key absent or
\* list empty).
C5_MainScene ==
    ScenesStageEnded
    => /\ (Has(Document0.scene) /\ 0 <= Get(Document0.scene)
              /\ Get(Document0.scene) < SceneCount)
            => (Constructed /\ get_main_scene = Document0.scene)
       /\ (~Has(Document0.scene) /\ SceneCount >= 1)
            => (Constructed /\ get_main_scene = {0})
       /\ SceneCount = 0 => (Constructed /\ get_main_scene = {})

NodeCount == Len(Document0.nodes)
NodeIds == 0..(NodeCount - 1)
ChildrenOf(p) == Document0.nodes[p + 1].children
Lists(p, c) == \E k \in 1..Len(ChildrenOf(p)) : ChildrenOf(p)[k] = c
ChildrenWithinList == \A p \in NodeIds : \A c \in NodeIds \cup {-1, NodeCount} :
                          Lists(p, c) => c \in NodeIds
\* the nodes stage completed
NodesAssembled == Constructed \/ FailedAt("scenes")

ChildrenInOrder == \A p \in NodeIds : nodes[p + 1]._children = ChildrenOf(p)
Orphans == \A c \in NodeIds :
              (\A p \in NodeIds : ~Lists(p, c)) => nodes[c + 1]._parent = {}

\* C6 as stated: each node's children sequence is its children list in order,
\* every node in the children sequence of p has parent p, and a node in no
\* children list has no parent.
C6_Original ==
    (NodesAssembled /\ ChildrenWithinList)
    => /\ ChildrenInOrder
       /\ \A p \in NodeIds : \A c \in NodeIds :
             Lists(p, c) => nodes[c + 1]._parent = {p}
       /\ Orphans

\* C6 amended: each node's children sequence is its children list in order,
\* the parent of a node listed as a child is the highest-indexed node whose
\* children list names it, and a node in no children list has no parent.
C6_ParentChild ==
    (NodesAssembled /\ ChildrenWithinList)
    => /\ ChildrenInOrder
       /\ \A p \in NodeIds : \A c \in NodeIds :
             (Lists(p, c) /\ \A q \in NodeIds : (q > p => ~Lists(q, c)))
                => nodes[c + 1]._parent = {p}
       /\ Orphans

\* node 2 is listed by nodes 0 and 1 and has parent 1
C6_Witness ==
    /\ Constructed
    /\ NodeCount = 3
    /\ nodes[1]._children = <<2>>
    /\ nodes[2]._children = <<2>>
    /\ nodes[1]._parent = {}
    /\ nodes[3]._parent = {1}

====
